---- MODULE Spec2Model ----
(***************************************************************************)
(* ReadabilityWebPageReader (loader_hub/web/readability_web/base.py).      *)
(*                                                                         *)
(* A reader object holds a configuration.  load_data(url) opens a          *)
(* playwright context, launches a browser, scrapes one page (new_page,     *)
(* goto, evaluate the injected Readability script, close the page), picks  *)
(* the metadata, normalizes and splits the text, closes the browser and    *)
(* returns one Document per chunk.  Two load_data calls on the same reader *)
(* are modelled, interleaved step by step.                                 *)
(*                                                                         *)
(* Text is a sequence of characters; a character is a string naming it.    *)
(***************************************************************************)
EXTENDS Integers, Sequences, FiniteSets, TLC

\* ------------------------------------------------------------------ bounds
MaxLen == 2      \* longest textContent the rendered page yields
MaxChunk == 1    \* largest chunk size of a configured text splitter
MaxCand == 3     \* most candidate subtrees of a DOM
MaxScore == 2    \* largest raw content score of a candidate

Calls == {1, 2}

\* ------------------------------------------------------------ values
None == [none |-> TRUE]          \* Python's None
Unbound == [unbound |-> TRUE]    \* a local not assigned yet

\* "fi_lig" is U+FB01, "eacute" is U+00E9, "acute" is U+0301.
Chars == {"e", "acute", "fi_lig"}

RECURSIVE SeqsUpTo(_, _)
SeqsUpTo(S, n) ==
    IF n = 0 THEN {<<>>}
    ELSE LET shorter == SeqsUpTo(S, n - 1)
         IN  shorter \cup {Append(s, x) : s \in {t \in shorter : Len(t) = n - 1}, x \in S}

Texts == SeqsUpTo(Chars, MaxLen)

\* --------------------------------------------------------- nfkc_normalize
\* Compatibility decomposition of one character.
Decomp(ch) ==
    CASE ch = "fi_lig" -> <<"f", "i">>
      [] ch = "eacute" -> <<"e", "acute">>
      [] OTHER -> <<ch>>

RECURSIVE Decompose(_)
Decompose(s) == IF s = <<>> THEN <<>> ELSE Decomp(Head(s)) \o Decompose(Tail(s))

\* Canonical composition: a base followed by its combining mark.
RECURSIVE Compose(_)
Compose(s) ==
    IF s = <<>> THEN <<>>
    ELSE IF Len(s) >= 2 /\ s[1] = "e" /\ s[2] = "acute"
         THEN <<"eacute">> \o Compose(Tail(Tail(s)))
         ELSE <<Head(s)>> \o Compose(Tail(s))

nfkc_normalize(text) == Compose(Decompose(text))

\* The callable stored in reader.normalize, applied.
NfkcNormalizer == [callable |-> "nfkc_normalize"]

ApplyNormalize(f, text) == IF f = NfkcNormalizer THEN nfkc_normalize(text) ELSE text

\* ------------------------------------------------------------ split_text
\* A text splitter cutting the text into consecutive chunks of n characters.
Splitter(n) == [chunk_size |-> n]

RECURSIVE split_text(_, _)
split_text(n, text) ==
    IF text = <<>> THEN <<>>
    ELSE IF Len(text) <= n THEN <<text>>
         ELSE <<SubSeq(text, 1, n)>> \o split_text(n, SubSeq(text, n + 1, Len(text)))

\* ------------------------------------------------------------ the article
\* What Readability's parse() yields for a page whose text is t.
ArticleOf(t) ==
    [title |-> <<"fi_lig">>,
     content |-> <<"<div>">> \o t \o <<"</div>">>,
     textContent |-> t,
     length |-> Len(t),
     excerpt |-> IF t = <<>> THEN <<>> ELSE <<Head(t)>>,
     byline |-> None,
     dir |-> None,
     lang |-> <<"e">>,
     siteName |-> None]

Articles == {ArticleOf(t) : t \in Texts}

ExtraInfoKeys == {"title", "length", "excerpt", "byline", "dir", "lang", "siteName"}

ExtraInfoOf(a) == [key \in ExtraInfoKeys |-> a[key]]

Document(x, info) == [text |-> x, extra_info |-> info]

\* Fault variant of Documents: the list is built in reverse chunk order.
DocumentsReversed(ts, info) == [i \in 1..Len(ts) |-> Document(ts[Len(ts) + 1 - i], info)]

Documents(ts, info) == [i \in 1..Len(ts) |-> Document(ts[i], info)]

\* ------------------------------------------------------------ the reader
\* __init__(proxy, wait_until, text_splitter, normalize)
NewReader(proxy, wait_until, text_splitter, normalize) ==
    [launch_options |-> IF proxy # None
                        THEN [headless |-> TRUE, proxy |-> [server |-> proxy]]
                        ELSE [headless |-> TRUE],
     wait_until |-> wait_until,
     text_splitter |-> text_splitter,
     normalize |-> normalize]

\* ReadabilityWebPageReader(): every argument at its default
DefaultReader == NewReader(None, "domcontentloaded", None, NfkcNormalizer)

Readers ==
    {NewReader(proxy, "domcontentloaded", text_splitter, normalize) :
        proxy \in {None, [url |-> "http://proxy"]},
        text_splitter \in {None} \cup {Splitter(n) : n \in 1..MaxChunk},
        normalize \in {None, NfkcNormalizer}}

\* ------------------------------------------------------------ the extractor
\* A candidate subtree: its raw content score and its link density in percent.
Candidates == [score : 0..MaxScore, link_density : {0, 50}]

Doms == SeqsUpTo(Candidates, MaxCand)

\* The link-density penalty is multiplicative; the score is kept scaled by 100.
Adjusted(cand) == cand.score * (100 - cand.link_density)

VARIABLES
    reader,       \* the reader's fields: _launch_options, _wait_until, _text_splitter, _normalize
    pc,           \* pc[c]: where call c of load_data stands
    pw,           \* pw[c]: the call's sync_playwright context
    browser,      \* browser[c]: the browser the call launched (owner: the call whose context made it)
    page,         \* page[c]: the page scrape_page opened
    r,            \* r[c]: what page.evaluate returned
    article,      \* article[c]: load_data's article
    extra_info,   \* extra_info[c]
    texts,        \* texts[c]
    docs,         \* docs[c]: the list load_data returned
    error,        \* error[c]: the exception that left load_data
    normCalls,    \* normCalls[c]: the arguments the normalizer was called with
    splitCalls,   \* splitCalls[c]: the arguments split_text was called with
    dom,          \* the candidates of the DOM handed to the extractor, in document order
    scanned,      \* candidates examined so far
    top,          \* index of the best candidate so far (0: none)
    outcome       \* the extractor's result

callVars == <<pc, pw, browser, page, r, article, extra_info, texts, docs,
              error, normCalls, splitCalls>>
extractVars == <<dom, scanned, top, outcome>>
vars == <<reader, callVars, extractVars>>

InitCalls ==
    /\ pc = [c \in Calls |-> "idle"]
    /\ pw = [c \in Calls |-> "none"]
    /\ browser = [c \in Calls |-> Unbound]
    /\ page = [c \in Calls |-> Unbound]
    /\ r = [c \in Calls |-> Unbound]
    /\ article = [c \in Calls |-> Unbound]
    /\ extra_info = [c \in Calls |-> Unbound]
    /\ texts = [c \in Calls |-> Unbound]
    /\ docs = [c \in Calls |-> Unbound]
    /\ error = [c \in Calls |-> "none"]
    /\ normCalls = [c \in Calls |-> <<>>]
    /\ splitCalls = [c \in Calls |-> <<>>]

Init ==
    /\ reader \in Readers
    /\ InitCalls
    /\ dom = <<>>
    /\ scanned = 0
    /\ top = 0
    /\ outcome = "none"

\* An exception raised at pc[c]: no try statement in scrape_page or load_data catches it,
\* so it leaves the with block (the playwright context stops) and reaches load_data's caller.
Raise(c, exc) ==
    /\ pc' = [pc EXCEPT ![c] = "failed"]
    /\ pw' = [pw EXCEPT ![c] = "stopped"]
    /\ error' = [error EXCEPT ![c] = exc]

\* load_data is entered: with sync_playwright() as p
Enter(c) ==
    /\ pc[c] = "idle"
    /\ pc' = [pc EXCEPT ![c] = "launch"]
    /\ pw' = [pw EXCEPT ![c] = "running"]
    /\ UNCHANGED <<reader, browser, page, r, article, extra_info, texts, docs,
                   error, normCalls, splitCalls, extractVars>>

\* Fault variant of Launch: an open browser of another call is reused instead of launching.
LaunchReusesBrowser(c) ==
    /\ pc[c] = "launch"
    /\ browser' = [browser EXCEPT ![c] =
                       IF \E d \in Calls \ {c} : browser[d] # Unbound /\ browser[d].state = "open"
                       THEN browser[CHOOSE d \in Calls \ {c} :
                                        browser[d] # Unbound /\ browser[d].state = "open"]
                       ELSE [owner |-> c, state |-> "open", options |-> reader.launch_options]]
    /\ pc' = [pc EXCEPT ![c] = "new_page"]
    /\ UNCHANGED <<reader, pw, page, r, article, extra_info, texts, docs,
                   error, normCalls, splitCalls, extractVars>>

\* browser = p.chromium.launch(**self._launch_options)
Launch(c) ==
    /\ pc[c] = "launch"
    /\ browser' = [browser EXCEPT ![c] =
                       [owner |-> c, state |-> "open", options |-> reader.launch_options]]
    /\ pc' = [pc EXCEPT ![c] = "new_page"]
    /\ UNCHANGED <<reader, pw, page, r, article, extra_info, texts, docs,
                   error, normCalls, splitCalls, extractVars>>

LaunchFail(c) ==
    /\ pc[c] = "launch"
    /\ Raise(c, "LaunchError")
    /\ UNCHANGED <<reader, browser, page, r, article, extra_info, texts, docs,
                   normCalls, splitCalls, extractVars>>

\* scrape_page: page = browser.new_page(...); page.set_default_timeout(60000)
NewPage(c) ==
    /\ pc[c] = "new_page"
    /\ page' = [page EXCEPT ![c] =
                    [owner |-> c, browser |-> browser[c].owner, state |-> "open",
                     navigated |-> FALSE, evaluated |-> FALSE]]
    /\ pc' = [pc EXCEPT ![c] = "goto"]
    /\ UNCHANGED <<reader, pw, browser, r, article, extra_info, texts, docs,
                   error, normCalls, splitCalls, extractVars>>

NewPageFail(c) ==
    /\ pc[c] = "new_page"
    /\ Raise(c, "PageError")
    /\ UNCHANGED <<reader, browser, page, r, article, extra_info, texts, docs,
                   normCalls, splitCalls, extractVars>>

\* page.goto(url, wait_until=self._wait_until)
Goto(c) ==
    /\ pc[c] = "goto"
    /\ page' = [page EXCEPT ![c].navigated = TRUE]
    /\ pc' = [pc EXCEPT ![c] = "evaluate"]
    /\ UNCHANGED <<reader, pw, browser, r, article, extra_info, texts, docs,
                   error, normCalls, splitCalls, extractVars>>

\* Fault variant of GotoFail: the navigation error is caught and scraping goes on.
GotoFailSwallowed(c) ==
    /\ pc[c] = "goto"
    /\ pc' = [pc EXCEPT ![c] = "evaluate"]
    /\ UNCHANGED <<reader, pw, browser, page, r, article, extra_info, texts, docs,
                   error, normCalls, splitCalls, extractVars>>

\* goto raises: navigation error or the 60 s timeout
GotoFail(c) ==
    /\ pc[c] = "goto"
    /\ Raise(c, "NavigationError")
    /\ UNCHANGED <<reader, browser, page, r, article, extra_info, texts, docs,
                   normCalls, splitCalls, extractVars>>

\* r = page.evaluate(inject_readability): an article, or None when parse() finds none
Evaluate(c) ==
    /\ pc[c] = "evaluate"
    /\ \E a \in Articles \cup {None} : r' = [r EXCEPT ![c] = a]
    /\ page' = [page EXCEPT ![c].evaluated = TRUE]
    /\ pc' = [pc EXCEPT ![c] = "page_close"]
    /\ UNCHANGED <<reader, pw, browser, article, extra_info, texts, docs,
                   error, normCalls, splitCalls, extractVars>>

EvaluateFail(c) ==
    /\ pc[c] = "evaluate"
    /\ page' = [page EXCEPT ![c].evaluated = TRUE]
    /\ Raise(c, "EvaluateError")
    /\ UNCHANGED <<reader, browser, r, article, extra_info, texts, docs,
                   normCalls, splitCalls, extractVars>>

\* page.close(); print(...); return r   -- and load_data binds article
PageClose(c) ==
    /\ pc[c] = "page_close"
    /\ page' = [page EXCEPT ![c].state = "closed"]
    /\ article' = [article EXCEPT ![c] = r[c]]
    /\ pc' = [pc EXCEPT ![c] = "extra_info"]
    /\ UNCHANGED <<reader, pw, browser, r, extra_info, texts, docs,
                   error, normCalls, splitCalls, extractVars>>

\* Fault variant of ExtraInfo: a missing article is replaced by an empty one.
ExtraInfoLenient(c) ==
    /\ pc[c] = "extra_info"
    /\ LET a == IF article[c] = None THEN ArticleOf(<<>>) ELSE article[c]
       IN  /\ article' = [article EXCEPT ![c] = a]
           /\ extra_info' = [extra_info EXCEPT ![c] = ExtraInfoOf(a)]
    /\ pc' = [pc EXCEPT ![c] = "normalize"]
    /\ UNCHANGED <<reader, pw, browser, page, r, texts, docs,
                   error, normCalls, splitCalls, extractVars>>

\* extra_info = {key: article[key] for key in [...]}; None is not subscriptable
ExtraInfo(c) ==
    /\ pc[c] = "extra_info"
    /\ IF article[c] = None
       THEN /\ Raise(c, "TypeError")
            /\ UNCHANGED extra_info
       ELSE /\ extra_info' = [extra_info EXCEPT ![c] = ExtraInfoOf(article[c])]
            /\ pc' = [pc EXCEPT ![c] = "normalize"]
            /\ UNCHANGED <<error, pw>>
    /\ UNCHANGED <<reader, browser, page, r, article, texts, docs,
                   normCalls, splitCalls, extractVars>>

\* Fault variant of Normalize: text is normalized only while no other call has normalized.
NormalizeFirstCallOnly(c) ==
    /\ pc[c] = "normalize"
    /\ IF reader.normalize # None /\ \A d \in Calls \ {c} : normCalls[d] = <<>>
       THEN /\ article' = [article EXCEPT ![c].textContent =
                               ApplyNormalize(reader.normalize, article[c].textContent)]
            /\ normCalls' = [normCalls EXCEPT ![c] = Append(@, article[c].textContent)]
       ELSE UNCHANGED <<article, normCalls>>
    /\ pc' = [pc EXCEPT ![c] = "split"]
    /\ UNCHANGED <<reader, pw, browser, page, r, extra_info, texts, docs,
                   error, splitCalls, extractVars>>

\* Fault variant of Normalize: the normalizer is applied twice.
NormalizeTwice(c) ==
    /\ pc[c] = "normalize"
    /\ IF reader.normalize # None
       THEN LET once == ApplyNormalize(reader.normalize, article[c].textContent)
            IN  /\ article' = [article EXCEPT ![c].textContent =
                                   ApplyNormalize(reader.normalize, once)]
                /\ normCalls' = [normCalls EXCEPT ![c] =
                                     @ \o <<article[c].textContent, once>>]
       ELSE UNCHANGED <<article, normCalls>>
    /\ pc' = [pc EXCEPT ![c] = "split"]
    /\ UNCHANGED <<reader, pw, browser, page, r, extra_info, texts, docs,
                   error, splitCalls, extractVars>>

\* if self._normalize is not None:
\*     article["textContent"] = self._normalize(article["textContent"])
Normalize(c) ==
    /\ pc[c] = "normalize"
    /\ IF reader.normalize # None
       THEN /\ article' = [article EXCEPT ![c].textContent =
                               ApplyNormalize(reader.normalize, article[c].textContent)]
            /\ normCalls' = [normCalls EXCEPT ![c] = Append(@, article[c].textContent)]
       ELSE UNCHANGED <<article, normCalls>>
    /\ pc' = [pc EXCEPT ![c] = "split"]
    /\ UNCHANGED <<reader, pw, browser, page, r, extra_info, texts, docs,
                   error, splitCalls, extractVars>>

\* the normalizer is a caller-supplied callable: it may raise
NormalizeFail(c) ==
    /\ pc[c] = "normalize"
    /\ reader.normalize # None
    /\ normCalls' = [normCalls EXCEPT ![c] = Append(@, article[c].textContent)]
    /\ Raise(c, "NormalizerError")
    /\ UNCHANGED <<reader, browser, page, r, article, extra_info, texts, docs,
                   splitCalls, extractVars>>

\* texts = self._text_splitter.split_text(article["textContent"])  or  [article["textContent"]]
Split(c) ==
    /\ pc[c] = "split"
    /\ IF reader.text_splitter # None
       THEN /\ texts' = [texts EXCEPT ![c] =
                             split_text(reader.text_splitter.chunk_size, article[c].textContent)]
            /\ splitCalls' = [splitCalls EXCEPT ![c] = Append(@, article[c].textContent)]
       ELSE /\ texts' = [texts EXCEPT ![c] = <<article[c].textContent>>]
            /\ UNCHANGED splitCalls
    /\ pc' = [pc EXCEPT ![c] = "browser_close"]
    /\ UNCHANGED <<reader, pw, browser, page, r, article, extra_info, docs,
                   error, normCalls, extractVars>>

\* split_text is the splitter's code: it may raise
SplitFail(c) ==
    /\ pc[c] = "split"
    /\ reader.text_splitter # None
    /\ splitCalls' = [splitCalls EXCEPT ![c] = Append(@, article[c].textContent)]
    /\ Raise(c, "SplitterError")
    /\ UNCHANGED <<reader, browser, page, r, article, extra_info, texts, docs,
                   normCalls, extractVars>>

\* browser.close()
BrowserClose(c) ==
    /\ pc[c] = "browser_close"
    /\ browser' = [browser EXCEPT ![c].state = "closed"]
    /\ pc' = [pc EXCEPT ![c] = "return"]
    /\ UNCHANGED <<reader, pw, page, r, article, extra_info, texts, docs,
                   error, normCalls, splitCalls, extractVars>>

\* return [Document(x, extra_info=extra_info) for x in texts]; the with block exits
Return(c) ==
    /\ pc[c] = "return"
    /\ docs' = [docs EXCEPT ![c] = Documents(texts[c], extra_info[c])]
    /\ pw' = [pw EXCEPT ![c] = "stopped"]
    /\ pc' = [pc EXCEPT ![c] = "done"]
    /\ UNCHANGED <<reader, browser, page, r, article, extra_info, texts,
                   error, normCalls, splitCalls, extractVars>>

Next ==
    \E c \in Calls :
        \/ Enter(c)
        \/ Launch(c)
        \/ LaunchFail(c)
        \/ NewPage(c)
        \/ NewPageFail(c)
        \/ Goto(c)
        \/ GotoFail(c)
        \/ Evaluate(c)
        \/ EvaluateFail(c)
        \/ PageClose(c)
        \/ ExtraInfo(c)
        \/ Normalize(c)
        \/ NormalizeFail(c)
        \/ Split(c)
        \/ SplitFail(c)
        \/ BrowserClose(c)
        \/ Return(c)

Spec == Init /\ [][Next]_vars

\* ------------------------------------------------ the extractor's selection
InitExtract ==
    /\ reader = DefaultReader
    /\ InitCalls
    /\ dom \in Doms
    /\ scanned = 0
    /\ top = 0
    /\ outcome = "none"

\* Fault variant of ScanCandidate: on equal adjusted score the later candidate replaces the earlier.
ScanCandidateLastWins ==
    /\ outcome = "none"
    /\ scanned < Len(dom)
    /\ scanned' = scanned + 1
    /\ top' = IF top = 0 \/ Adjusted(dom[scanned + 1]) >= Adjusted(dom[top])
              THEN scanned + 1
              ELSE top
    /\ UNCHANGED <<reader, callVars, dom, outcome>>

\* Selection: candidates are examined in document order; the highest adjusted score wins.
ScanCandidate ==
    /\ outcome = "none"
    /\ scanned < Len(dom)
    /\ scanned' = scanned + 1
    /\ top' = IF top = 0 \/ Adjusted(dom[scanned + 1]) > Adjusted(dom[top])
              THEN scanned + 1
              ELSE top
    /\ UNCHANGED <<reader, callVars, dom, outcome>>

\* Every candidate was examined: the article root is chosen, or no candidate qualifies.
Select ==
    /\ outcome = "none"
    /\ scanned = Len(dom)
    /\ outcome' = IF top = 0 \/ Adjusted(dom[top]) = 0 THEN "NoContentFound" ELSE "selected"
    /\ UNCHANGED <<reader, callVars, dom, scanned, top>>

NextExtract == ScanCandidate \/ Select

SpecExtract == InitExtract /\ [][NextExtract]_vars

\* ==================================================================== claims
Returned(c) == pc[c] = "done"
Ended(c) == pc[c] \in {"done", "failed"}

\* C1: for every load_data call that returned, the 'length' copied into the documents'
\* metadata equals the character count of the article's textContent as it stands when
\* the documents are built, whatever normalizer is configured.
C1_LengthInvariant ==
    \A c \in Calls :
        Returned(c) => extra_info[c]["length"] = Len(article[c].textContent)

\* C2: when page.evaluate yields no article, load_data ends in an explicit failure and
\* never reaches the construction of documents.
C2_NoArticleFails ==
    \A c \in Calls :
        r[c] = None =>
            /\ pc[c] \in {"page_close", "extra_info", "failed"}
            /\ pc[c] = "failed" => error[c] = "TypeError"
            /\ ~Returned(c)

C2_Witness == \E c \in Calls : r[c] = None /\ pc[c] = "failed" /\ error[c] = "TypeError"

\* C3: a returned list has one document per chunk of the splitter, in the splitter's
\* order, each carrying the same metadata with exactly the seven keys taken from the
\* extracted article; with no splitter it is one document holding the whole
\* (normalized) textContent.
C3_OneDocumentPerChunk ==
    \A c \in Calls :
        Returned(c) =>
            LET text == ApplyNormalize(reader.normalize, r[c].textContent)
                chunks == IF reader.text_splitter # None
                          THEN split_text(reader.text_splitter.chunk_size, text)
                          ELSE <<text>>
            IN  /\ texts[c] = chunks
                /\ Len(docs[c]) = Len(chunks)
                /\ \A i \in 1..Len(chunks) :
                       /\ docs[c][i].text = chunks[i]
                       /\ DOMAIN docs[c][i].extra_info = ExtraInfoKeys
                       /\ \A key \in ExtraInfoKeys : docs[c][i].extra_info[key] = r[c][key]

C3_Witness ==
    \E c \in Calls :
        /\ Returned(c)
        /\ reader.text_splitter # None
        /\ Len(docs[c]) >= 2
        /\ docs[c][1].text # docs[c][2].text

\* C4: a failing launch, page creation or navigation reaches the caller of load_data as
\* an error, no document is returned, and the extraction script is evaluated on a page
\* only after its navigation completed.
C4_RendererErrorsPropagate ==
    \A c \in Calls :
        /\ page[c] # Unbound /\ page[c].evaluated => page[c].navigated
        /\ r[c] # Unbound => page[c].navigated
        /\ error[c] \in {"LaunchError", "PageError", "NavigationError"} =>
               /\ pc[c] = "failed"
               /\ r[c] = Unbound
               /\ article[c] = Unbound
               /\ page[c] # Unbound => ~page[c].evaluated
        /\ page[c] # Unbound /\ ~page[c].navigated => pc[c] \in {"goto", "failed"}

C4_Witness ==
    \E c \in Calls :
        /\ pc[c] = "failed"
        /\ error[c] = "NavigationError"
        /\ page[c].state = "open"
        /\ ~page[c].evaluated

\* C5: two load_data calls of one reader whose pages yield the same article return
\* identical document lists.
C5_Deterministic ==
    \A c, d \in Calls :
        Returned(c) /\ Returned(d) /\ r[c] = r[d] => docs[c] = docs[d]

C5_Witness ==
    /\ \A c \in Calls : Returned(c) /\ Len(docs[c]) >= 1
    /\ r[1] = r[2]
    /\ reader.normalize # None
    /\ docs[1][1].text # r[1].textContent

\* What one call holds: its locals and the objects it created.
Locals(c) ==
    <<pw[c], browser[c], page[c], r[c], article[c], extra_info[c], texts[c], docs[c],
      error[c], normCalls[c], splitCalls[c]>>

\* C6: no step of load_data or scrape_page changes the reader's configuration, a step of
\* one call changes nothing another call holds, each call works on the browser it
\* launched and the page it opened, and a returned list is what the call computes from
\* its own article and the configuration alone.
C6_Stateless ==
    /\ [][/\ reader' = reader
          /\ \A c \in Calls : pc'[c] = pc[c] => Locals(c)' = Locals(c)]_vars
    /\ [](\A c \in Calls :
            /\ browser[c] # Unbound => browser[c].owner = c
            /\ page[c] # Unbound => page[c].owner = c /\ page[c].browser = c
            /\ Returned(c) =>
                   LET text == ApplyNormalize(reader.normalize, r[c].textContent)
                   IN  docs[c] = Documents(IF reader.text_splitter # None
                                           THEN split_text(reader.text_splitter.chunk_size, text)
                                           ELSE <<text>>,
                                           ExtraInfoOf(r[c])))

C6_Witness ==
    /\ Returned(1)
    /\ pc[2] \in {"goto", "evaluate"}
    /\ browser[2].state = "open"
    /\ browser[1].state = "closed"

\* C7: once scrape_page has returned the article, no step of load_data changes any
\* field of that record.
C7_ArticleImmutable ==
    [][\A c \in Calls : article[c] # Unbound => article'[c] = article[c]]_vars

\* C8: a configured normalizer is called exactly once, on the article's textContent as
\* extracted, after scrape_page returned and before the splitter runs; the splitter is
\* given the normalized text; the metadata is never normalized; with no normalizer the
\* text reaching the splitter and the documents is the extractor's textContent.
C8_NormalizeOnceBeforeSplit ==
    \A c \in Calls :
        /\ normCalls[c] # <<>> =>
               /\ reader.normalize # None
               /\ normCalls[c] = <<r[c].textContent>>
               /\ page[c].state = "closed"
        /\ pc[c] \in {"split", "browser_close", "return", "done"} =>
               /\ reader.normalize # None => normCalls[c] = <<r[c].textContent>>
               /\ article[c].textContent = ApplyNormalize(reader.normalize, r[c].textContent)
               /\ reader.normalize = None => article[c].textContent = r[c].textContent
               /\ \A key \in ExtraInfoKeys : extra_info[c][key] = r[c][key]
        /\ splitCalls[c] # <<>> =>
               splitCalls[c] = <<ApplyNormalize(reader.normalize, r[c].textContent)>>
        /\ pc[c] \in {"browser_close", "return", "done"} /\ reader.text_splitter = None =>
               texts[c] = <<ApplyNormalize(reader.normalize, r[c].textContent)>>

C8_Witness ==
    \E c \in Calls :
        /\ Returned(c)
        /\ reader.normalize # None
        /\ reader.text_splitter # None
        /\ normCalls[c] # splitCalls[c]
        /\ extra_info[c]["title"] # ApplyNormalize(reader.normalize, extra_info[c]["title"])

\* C9: when candidates have equal adjusted score, the extractor selects the one that
\* appears earlier in document order; the selected root has the highest adjusted score.
C9_EarliestWinsTie ==
    outcome = "selected" =>
        /\ top \in 1..Len(dom)
        /\ \A j \in 1..Len(dom) :
               /\ Adjusted(dom[j]) <= Adjusted(dom[top])
               /\ Adjusted(dom[j]) = Adjusted(dom[top]) => top <= j

C9_Witness ==
    /\ outcome = "selected"
    /\ \E j \in 1..Len(dom) :
           /\ j > top
           /\ Adjusted(dom[j]) = Adjusted(dom[top])
           /\ dom[j].score # dom[top].score

\* C10: when a call has ended, with documents or with an error, the page it opened and
\* the browser it launched have been closed.
C10_ResourcesReleased ==
    \A c \in Calls :
        /\ pc[c] \notin {"idle", "launch", "new_page", "goto", "evaluate", "page_close"} =>
               (page[c] # Unbound => page[c].state = "closed")
        /\ Ended(c) => (browser[c] # Unbound => browser[c].state = "closed")

====
